---- MODULE Spec2Model ----
(***************************************************************************)
(* A model of the generic resource pool of pool/pool.go.                   *)
(*                                                                         *)
(* The pool is a buffered channel c of resources (capacity PoolSize), a    *)
(* counter n guarded by a mutex l, and the options o.  Initialize fills    *)
(* the channel, Acquire receives from it (or times out), Release sends to  *)
(* it, and refreshPool, run by a ticker goroutine, receives and re-sends   *)
(* every counted slot under the mutex.                                     *)
(*                                                                         *)
(* Resource instances are the numbers 1..MaxInst; Add() yields a fresh     *)
(* one every time.  Time is abstracted: the time.After case of a select    *)
(* can be taken only while the channel case cannot (the buffer is empty),  *)
(* and then at any moment.  Every hook (PreAcquire, PreRelease,            *)
(* PostRelease), Evict() and Add() is client code: its outcome is a        *)
(* nondeterministic choice.                                                *)
(***************************************************************************)
EXTENDS Integers, Sequences, FiniteSets

\* ---- bounds of the model ----
MaxPoolSize == 2
NumCallers == 2
MaxInst == 3

Callers == 1..NumCallers
\* the nil Resource
NoRes == 0

VARIABLES
    o,        \* Options: [PoolSize, EvictionTest]
    c,        \* Pool.c: the channel's buffer, oldest first
    n,        \* Pool.n
    l,        \* Pool.l: "unlocked", or "refreshPool" while a refresh pass holds the mutex (Acquire and
              \* Release lock, update n and unlock in one step)
    ipc,      \* Initialize: "add" (in the loop), "done" (returned p), "failed" (returned nil, err)
    nextId,   \* the instance the next Add() call yields
    pc,       \* per caller: its position in Acquire or Release, "idle" between calls
    r,        \* per caller: the local r of the call in progress
    held,     \* per caller: the instance it got from Acquire and has not yet sent back
    rpc,      \* the ticker goroutine: "off" (not started), "idle" (waiting for a tick), or its place in refreshPool
    ri,       \* refreshPool: the loop index i
    rr,       \* refreshPool: the local r of the current slot
    justReleased, \* the instance sent by a Release that ran with no other call in progress and no
              \* ticker goroutine, until the next channel operation or concurrent call (else NoRes)
    orig      \* refreshPool: the instances that were in the buffer when the pass took the mutex,
              \* as long as the pass has replaced every instance it received ({} otherwise)

vars == <<o, c, n, l, ipc, nextId, pc, r, held, rpc, ri, rr, justReleased, orig>>

poolVars == <<c, n, l>>
initVars == <<o, ipc>>
callerVars == <<pc, r, held, justReleased>>
refreshVars == <<rpc, ri, rr, orig>>

Range(s) == {s[k] : k \in 1..Len(s)}

\* the return statements of Acquire and of Release, as positions of a caller
AcquireReturns == {"acq_ret_nil", "acq_ret_timeout", "acq_ret_err1", "acq_ret_err2"}
ReleaseReturns == {"rel_ret_nil", "rel_ret_pre", "rel_ret_post"}

\* No caller is at a return statement.  A return statement touches no shared state, so
\* it is taken before any other step: every other action waits for it.
Returns == AcquireReturns \cup ReleaseReturns
NoReturnPending == \A u \in Callers : pc[u] \notin Returns

\* no caller but t is inside a call
Alone(t) == \A u \in Callers \ {t} : pc[u] = "idle"

Init ==
    /\ o \in [PoolSize : 1..MaxPoolSize, EvictionTest : BOOLEAN]
    /\ c = <<>>
    /\ n = 0
    /\ l = "unlocked"
    /\ ipc = "add"
    /\ nextId = 1
    /\ pc = [t \in Callers |-> "idle"]
    /\ r = [t \in Callers |-> NoRes]
    /\ held = [t \in Callers |-> NoRes]
    /\ rpc = "off"
    /\ ri = 0
    /\ rr = NoRes
    /\ justReleased = NoRes
    /\ orig = {}

\* ---- Initialize ----

\* one iteration of the filling loop: r.Add() succeeds and the instance is sent
InitAdd ==
    /\ ipc = "add"
    /\ Len(c) < o.PoolSize
    /\ nextId <= MaxInst
    /\ c' = Append(c, nextId)
    /\ nextId' = nextId + 1
    /\ UNCHANGED <<o, n, l, ipc>>
    /\ UNCHANGED callerVars
    /\ UNCHANGED refreshVars

\* InitAddErr with the ticker goroutine started before the error is returned
InitAddErrTicker ==
    /\ ipc = "add"
    /\ Len(c) < o.PoolSize
    /\ ipc' = "failed"
    /\ rpc' = IF o.EvictionTest THEN "idle" ELSE "off"
    /\ UNCHANGED <<o, nextId, ri, rr, orig>>
    /\ UNCHANGED poolVars
    /\ UNCHANGED callerVars

\* one iteration of the filling loop: r.Add() fails, Initialize returns nil, err
InitAddErr ==
    /\ ipc = "add"
    /\ Len(c) < o.PoolSize
    /\ ipc' = "failed"
    /\ UNCHANGED <<o, nextId>>
    /\ UNCHANGED poolVars
    /\ UNCHANGED callerVars
    /\ UNCHANGED refreshVars

\* InitFinish starting the ticker goroutine whatever o.EvictionTest says
InitFinishAlwaysTick ==
    /\ ipc = "add"
    /\ Len(c) = o.PoolSize
    /\ n' = o.PoolSize
    /\ rpc' = "idle"
    /\ ipc' = "done"
    /\ UNCHANGED <<o, c, l, nextId, ri, rr, orig>>
    /\ UNCHANGED callerVars

\* after the loop: p.n = o.PoolSize, the ticker goroutine when asked for, return p
InitFinish ==
    /\ ipc = "add"
    /\ Len(c) = o.PoolSize
    /\ n' = o.PoolSize
    /\ rpc' = IF o.EvictionTest THEN "idle" ELSE "off"
    /\ ipc' = "done"
    /\ UNCHANGED <<o, c, l, nextId, ri, rr, orig>>
    /\ UNCHANGED callerVars

\* ---- Acquire ----

\* a caller that holds nothing calls Acquire and reaches the select
AcquireCall(t) ==
    /\ NoReturnPending
    /\ ipc = "done"
    /\ pc[t] = "idle"
    /\ held[t] = NoRes
    /\ pc' = [pc EXCEPT ![t] = "acq_select"]
    /\ justReleased' = IF Alone(t) THEN justReleased ELSE NoRes
    /\ UNCHANGED <<r, held, nextId>>
    /\ UNCHANGED poolVars
    /\ UNCHANGED initVars
    /\ UNCHANGED refreshVars

\* AcquireRecv reading the head of the buffer without removing it
AcquireRecvPeek(t) ==
    /\ NoReturnPending
    /\ pc[t] = "acq_select"
    /\ c # <<>>
    /\ r' = [r EXCEPT ![t] = Head(c)]
    /\ pc' = [pc EXCEPT ![t] = "acq_pre1"]
    /\ justReleased' = NoRes
    /\ UNCHANGED <<c, n, l, held, nextId>>
    /\ UNCHANGED initVars
    /\ UNCHANGED refreshVars

\* case r = <-p.c
AcquireRecv(t) ==
    /\ NoReturnPending
    /\ pc[t] = "acq_select"
    /\ c # <<>>
    /\ r' = [r EXCEPT ![t] = Head(c)]
    /\ c' = Tail(c)
    /\ pc' = [pc EXCEPT ![t] = "acq_pre1"]
    /\ justReleased' = NoRes
    /\ UNCHANGED <<n, l, held, nextId>>
    /\ UNCHANGED initVars
    /\ UNCHANGED refreshVars

\* AcquireTimeout firing although the buffer holds an instance
AcquireTimeoutAnytime(t) ==
    /\ NoReturnPending
    /\ pc[t] = "acq_select"
    /\ pc' = [pc EXCEPT ![t] = "acq_ret_timeout"]
    /\ UNCHANGED <<r, held, justReleased, nextId>>
    /\ UNCHANGED poolVars
    /\ UNCHANGED initVars
    /\ UNCHANGED refreshVars

\* AcquireTimeout counting the timed-out call as an acquisition
AcquireTimeoutDec(t) ==
    /\ NoReturnPending
    /\ pc[t] = "acq_select"
    /\ c = <<>>
    /\ n' = n - 1
    /\ pc' = [pc EXCEPT ![t] = "acq_ret_timeout"]
    /\ UNCHANGED <<c, l, r, held, justReleased, nextId>>
    /\ UNCHANGED initVars
    /\ UNCHANGED refreshVars

\* case <-time.After(p.o.Timeout): the statement return nil, errors.New("Timeout") is reached
AcquireTimeout(t) ==
    /\ NoReturnPending
    /\ pc[t] = "acq_select"
    /\ c = <<>>
    /\ pc' = [pc EXCEPT ![t] = "acq_ret_timeout"]
    /\ UNCHANGED <<r, held, justReleased, nextId>>
    /\ UNCHANGED poolVars
    /\ UNCHANGED initVars
    /\ UNCHANGED refreshVars

\* the first r.PreAcquire() returns nil
AcquirePre1(t) ==
    /\ NoReturnPending
    /\ pc[t] = "acq_pre1"
    /\ pc' = [pc EXCEPT ![t] = "acq_lock"]
    /\ UNCHANGED <<r, held, justReleased, nextId>>
    /\ UNCHANGED poolVars
    /\ UNCHANGED initVars
    /\ UNCHANGED refreshVars

\* AcquirePre1Err sending r back to the buffer before it returns the error
AcquirePre1ErrRequeue(t) ==
    /\ NoReturnPending
    /\ pc[t] = "acq_pre1"
    /\ Len(c) < o.PoolSize
    /\ c' = Append(c, r[t])
    /\ pc' = [pc EXCEPT ![t] = "acq_ret_err1"]
    /\ r' = [r EXCEPT ![t] = NoRes]
    /\ UNCHANGED <<n, l, held, justReleased, nextId>>
    /\ UNCHANGED initVars
    /\ UNCHANGED refreshVars

\* the first r.PreAcquire() returns an error: return nil, err is reached
AcquirePre1Err(t) ==
    /\ NoReturnPending
    /\ pc[t] = "acq_pre1"
    /\ pc' = [pc EXCEPT ![t] = "acq_ret_err1"]
    /\ r' = [r EXCEPT ![t] = NoRes]
    /\ UNCHANGED <<held, justReleased, nextId>>
    /\ UNCHANGED poolVars
    /\ UNCHANGED initVars
    /\ UNCHANGED refreshVars

\* AcquireDec leaving p.n as it is
AcquireNoDec(t) ==
    /\ NoReturnPending
    /\ pc[t] = "acq_lock"
    /\ l = "unlocked"
    /\ pc' = [pc EXCEPT ![t] = "acq_pre2"]
    /\ UNCHANGED <<c, n, l, r, held, justReleased, nextId>>
    /\ UNCHANGED initVars
    /\ UNCHANGED refreshVars

\* AcquireDec decrementing p.n without taking p.l
AcquireDecNoLock(t) ==
    /\ NoReturnPending
    /\ pc[t] = "acq_lock"
    /\ n' = n - 1
    /\ pc' = [pc EXCEPT ![t] = "acq_pre2"]
    /\ UNCHANGED <<c, l, r, held, justReleased, nextId>>
    /\ UNCHANGED initVars
    /\ UNCHANGED refreshVars

\* p.l.Lock(); p.n--; p.l.Unlock()
AcquireDec(t) ==
    /\ NoReturnPending
    /\ pc[t] = "acq_lock"
    /\ l = "unlocked"
    /\ n' = n - 1
    /\ pc' = [pc EXCEPT ![t] = "acq_pre2"]
    /\ UNCHANGED <<c, l, r, held, justReleased, nextId>>
    /\ UNCHANGED initVars
    /\ UNCHANGED refreshVars

\* the second r.PreAcquire() returns nil: return r, err is reached
AcquirePre2(t) ==
    /\ NoReturnPending
    /\ pc[t] = "acq_pre2"
    /\ pc' = [pc EXCEPT ![t] = "acq_ret_nil"]
    /\ UNCHANGED <<r, held, justReleased, nextId>>
    /\ UNCHANGED poolVars
    /\ UNCHANGED initVars
    /\ UNCHANGED refreshVars

\* AcquirePre2Err undoing the decrement of p.n before it returns the error
AcquirePre2ErrRollback(t) ==
    /\ NoReturnPending
    /\ pc[t] = "acq_pre2"
    /\ pc' = [pc EXCEPT ![t] = "acq_ret_err2"]
    /\ r' = [r EXCEPT ![t] = NoRes]
    /\ n' = n + 1
    /\ UNCHANGED <<c, l, held, justReleased, nextId>>
    /\ UNCHANGED initVars
    /\ UNCHANGED refreshVars

\* the second r.PreAcquire() returns an error: return nil, err is reached
AcquirePre2Err(t) ==
    /\ NoReturnPending
    /\ pc[t] = "acq_pre2"
    /\ pc' = [pc EXCEPT ![t] = "acq_ret_err2"]
    /\ r' = [r EXCEPT ![t] = NoRes]
    /\ UNCHANGED <<held, justReleased, nextId>>
    /\ UNCHANGED poolVars
    /\ UNCHANGED initVars
    /\ UNCHANGED refreshVars

\* Acquire returns: the caller holds the instance returned, if any
AcquireReturn(t) ==
    /\ pc[t] \in AcquireReturns
    /\ pc' = [pc EXCEPT ![t] = "idle"]
    /\ held' = [held EXCEPT ![t] = r[t]]
    /\ r' = [r EXCEPT ![t] = NoRes]
    /\ UNCHANGED <<justReleased, nextId>>
    /\ UNCHANGED poolVars
    /\ UNCHANGED initVars
    /\ UNCHANGED refreshVars

\* ---- Release ----

\* a caller releases the instance it holds (once per Acquire)
ReleaseCall(t) ==
    /\ NoReturnPending
    /\ ipc = "done"
    /\ pc[t] = "idle"
    /\ held[t] # NoRes
    /\ r' = [r EXCEPT ![t] = held[t]]
    /\ pc' = [pc EXCEPT ![t] = "rel_pre"]
    /\ justReleased' = NoRes
    /\ UNCHANGED <<held, nextId>>
    /\ UNCHANGED poolVars
    /\ UNCHANGED initVars
    /\ UNCHANGED refreshVars

\* a caller that holds nothing calls Release with an instance of its own making,
\* which it never acquired
RogueReleaseCall(t) ==
    /\ NoReturnPending
    /\ ipc = "done"
    /\ pc[t] = "idle"
    /\ held[t] = NoRes
    /\ nextId <= MaxInst
    /\ r' = [r EXCEPT ![t] = nextId]
    /\ nextId' = nextId + 1
    /\ pc' = [pc EXCEPT ![t] = "rel_pre"]
    /\ justReleased' = NoRes
    /\ UNCHANGED held
    /\ UNCHANGED poolVars
    /\ UNCHANGED initVars
    /\ UNCHANGED refreshVars

\* r.PreRelease() returns nil
ReleasePre(t) ==
    /\ NoReturnPending
    /\ pc[t] = "rel_pre"
    /\ pc' = [pc EXCEPT ![t] = "rel_send"]
    /\ UNCHANGED <<r, held, justReleased, nextId>>
    /\ UNCHANGED poolVars
    /\ UNCHANGED initVars
    /\ UNCHANGED refreshVars

\* ReleasePreErr sending r to the buffer all the same
ReleasePreErrSend(t) ==
    /\ NoReturnPending
    /\ pc[t] = "rel_pre"
    /\ Len(c) < o.PoolSize
    /\ c' = Append(c, r[t])
    /\ pc' = [pc EXCEPT ![t] = "rel_ret_pre"]
    /\ UNCHANGED <<n, l, r, held, justReleased, nextId>>
    /\ UNCHANGED initVars
    /\ UNCHANGED refreshVars

\* r.PreRelease() returns an error: return err is reached
ReleasePreErr(t) ==
    /\ NoReturnPending
    /\ pc[t] = "rel_pre"
    /\ pc' = [pc EXCEPT ![t] = "rel_ret_pre"]
    /\ UNCHANGED <<r, held, justReleased, nextId>>
    /\ UNCHANGED poolVars
    /\ UNCHANGED initVars
    /\ UNCHANGED refreshVars

\* ReleaseSend putting r at the front of the buffer (a stack)
ReleaseSendFront(t) ==
    /\ NoReturnPending
    /\ pc[t] = "rel_send"
    /\ Len(c) < o.PoolSize
    /\ c' = <<r[t]>> \o c
    /\ held' = [held EXCEPT ![t] = NoRes]
    /\ pc' = [pc EXCEPT ![t] = "rel_lock"]
    /\ justReleased' = IF Alone(t) /\ rpc = "off" THEN r[t] ELSE NoRes
    /\ UNCHANGED <<n, l, r, nextId>>
    /\ UNCHANGED initVars
    /\ UNCHANGED refreshVars

\* ReleaseSend on a buffer without a capacity
ReleaseSendUnbounded(t) ==
    /\ NoReturnPending
    /\ pc[t] = "rel_send"
    /\ c' = Append(c, r[t])
    /\ held' = [held EXCEPT ![t] = NoRes]
    /\ pc' = [pc EXCEPT ![t] = "rel_lock"]
    /\ justReleased' = IF Alone(t) /\ rpc = "off" THEN r[t] ELSE NoRes
    /\ UNCHANGED <<n, l, r, nextId>>
    /\ UNCHANGED initVars
    /\ UNCHANGED refreshVars

\* p.c <- r: blocks while the buffer is full
ReleaseSend(t) ==
    /\ NoReturnPending
    /\ pc[t] = "rel_send"
    /\ Len(c) < o.PoolSize
    /\ c' = Append(c, r[t])
    /\ held' = [held EXCEPT ![t] = NoRes]
    /\ pc' = [pc EXCEPT ![t] = "rel_lock"]
    /\ justReleased' = IF Alone(t) /\ rpc = "off" THEN r[t] ELSE NoRes
    /\ UNCHANGED <<n, l, r, nextId>>
    /\ UNCHANGED initVars
    /\ UNCHANGED refreshVars

\* ReleaseInc leaving p.n as it is
ReleaseNoInc(t) ==
    /\ NoReturnPending
    /\ pc[t] = "rel_lock"
    /\ l = "unlocked"
    /\ pc' = [pc EXCEPT ![t] = "rel_post"]
    /\ UNCHANGED <<c, n, l, r, held, justReleased, nextId>>
    /\ UNCHANGED initVars
    /\ UNCHANGED refreshVars

\* p.l.Lock(); p.n++; p.l.Unlock()
ReleaseInc(t) ==
    /\ NoReturnPending
    /\ pc[t] = "rel_lock"
    /\ l = "unlocked"
    /\ n' = n + 1
    /\ pc' = [pc EXCEPT ![t] = "rel_post"]
    /\ UNCHANGED <<c, l, r, held, justReleased, nextId>>
    /\ UNCHANGED initVars
    /\ UNCHANGED refreshVars

\* r.PostRelease() returns nil: return err (nil) is reached
ReleasePost(t) ==
    /\ NoReturnPending
    /\ pc[t] = "rel_post"
    /\ pc' = [pc EXCEPT ![t] = "rel_ret_nil"]
    /\ UNCHANGED <<r, held, justReleased, nextId>>
    /\ UNCHANGED poolVars
    /\ UNCHANGED initVars
    /\ UNCHANGED refreshVars

\* ReleasePostErr undoing the increment of p.n before it returns the error
ReleasePostErrRollback(t) ==
    /\ NoReturnPending
    /\ pc[t] = "rel_post"
    /\ n' = n - 1
    /\ pc' = [pc EXCEPT ![t] = "rel_ret_post"]
    /\ UNCHANGED <<c, l, r, held, justReleased, nextId>>
    /\ UNCHANGED initVars
    /\ UNCHANGED refreshVars

\* r.PostRelease() returns an error: return err is reached
ReleasePostErr(t) ==
    /\ NoReturnPending
    /\ pc[t] = "rel_post"
    /\ pc' = [pc EXCEPT ![t] = "rel_ret_post"]
    /\ UNCHANGED <<r, held, justReleased, nextId>>
    /\ UNCHANGED poolVars
    /\ UNCHANGED initVars
    /\ UNCHANGED refreshVars

\* Release returns: the caller no longer holds the instance, also when PreRelease
\* failed (it releases an instance once per Acquire)
ReleaseReturn(t) ==
    /\ pc[t] \in ReleaseReturns
    /\ pc' = [pc EXCEPT ![t] = "idle"]
    /\ held' = [held EXCEPT ![t] = NoRes]
    /\ r' = [r EXCEPT ![t] = NoRes]
    /\ UNCHANGED <<justReleased, nextId>>
    /\ UNCHANGED poolVars
    /\ UNCHANGED initVars
    /\ UNCHANGED refreshVars

\* ---- refreshPool, called by the ticker goroutine on every tick ----

\* a tick: refreshPool() is called and takes the mutex
RefreshLock ==
    /\ NoReturnPending
    /\ rpc = "idle"
    /\ l = "unlocked"
    /\ l' = "refreshPool"
    /\ ri' = 0
    /\ rpc' = "loop"
    /\ orig' = Range(c)
    /\ UNCHANGED <<c, n, rr, nextId>>
    /\ UNCHANGED initVars
    /\ UNCHANGED callerVars

\* RefreshRecv reading the head of the buffer without removing it
RefreshRecvPeek ==
    /\ NoReturnPending
    /\ rpc = "loop"
    /\ ri < n
    /\ c # <<>>
    /\ rr' = Head(c)
    /\ rpc' = "evict"
    /\ UNCHANGED <<c, n, l, ri, orig, nextId>>
    /\ UNCHANGED initVars
    /\ UNCHANGED callerVars

\* i < p.n; case r := <-p.c
RefreshRecv ==
    /\ NoReturnPending
    /\ rpc = "loop"
    /\ ri < n
    /\ c # <<>>
    /\ rr' = Head(c)
    /\ c' = Tail(c)
    /\ rpc' = "evict"
    /\ UNCHANGED <<n, l, ri, orig, nextId>>
    /\ UNCHANGED initVars
    /\ UNCHANGED callerVars

\* i < p.n; case <-time.After(p.o.Timeout): continue
RefreshTimeout ==
    /\ NoReturnPending
    /\ rpc = "loop"
    /\ ri < n
    /\ c = <<>>
    /\ ri' = ri + 1
    /\ UNCHANGED <<rpc, rr, orig, nextId>>
    /\ UNCHANGED poolVars
    /\ UNCHANGED initVars
    /\ UNCHANGED callerVars

\* r.Evict() returns false: r goes back as it is
RefreshKeep ==
    /\ NoReturnPending
    /\ rpc = "evict"
    /\ rpc' = "send"
    /\ orig' = {}
    /\ UNCHANGED <<ri, rr, nextId>>
    /\ UNCHANGED poolVars
    /\ UNCHANGED initVars
    /\ UNCHANGED callerVars

\* r.Evict() returns true and t, err := r.Add() succeeds: r = t
RefreshAdd ==
    /\ NoReturnPending
    /\ rpc = "evict"
    /\ nextId <= MaxInst
    /\ rr' = nextId
    /\ nextId' = nextId + 1
    /\ rpc' = "send"
    /\ UNCHANGED <<ri, orig>>
    /\ UNCHANGED poolVars
    /\ UNCHANGED initVars
    /\ UNCHANGED callerVars

\* r.Evict() returns true and r.Add() returns an error: the break statement is reached
RefreshAddErr ==
    /\ NoReturnPending
    /\ rpc = "evict"
    /\ rpc' = "break"
    /\ orig' = {}
    /\ UNCHANGED <<ri, rr, nextId>>
    /\ UNCHANGED poolVars
    /\ UNCHANGED initVars
    /\ UNCHANGED callerVars

\* break: it leaves the select statement, so p.c <- r is skipped and the loop
\* goes on with i++
RefreshBreak ==
    /\ NoReturnPending
    /\ rpc = "break"
    /\ rr' = NoRes
    /\ ri' = ri + 1
    /\ rpc' = "loop"
    /\ UNCHANGED <<orig, nextId>>
    /\ UNCHANGED poolVars
    /\ UNCHANGED initVars
    /\ UNCHANGED callerVars

\* p.c <- r (blocks while the buffer is full), then i++
RefreshSend ==
    /\ NoReturnPending
    /\ rpc = "send"
    /\ Len(c) < o.PoolSize
    /\ c' = Append(c, rr)
    /\ rr' = NoRes
    /\ ri' = ri + 1
    /\ rpc' = "loop"
    /\ UNCHANGED <<n, l, orig, nextId>>
    /\ UNCHANGED initVars
    /\ UNCHANGED callerVars

\* RefreshUnlock without the deferred p.l.Unlock()
RefreshNoUnlock ==
    /\ NoReturnPending
    /\ rpc = "loop"
    /\ ri >= n
    /\ rpc' = "idle"
    /\ ri' = 0
    /\ orig' = {}
    /\ UNCHANGED <<c, n, l, rr, nextId>>
    /\ UNCHANGED initVars
    /\ UNCHANGED callerVars

\* i >= p.n: the loop ends and the deferred p.l.Unlock() runs
RefreshUnlock ==
    /\ NoReturnPending
    /\ rpc = "loop"
    /\ ri >= n
    /\ l' = "unlocked"
    /\ rpc' = "idle"
    /\ ri' = 0
    /\ orig' = {}
    /\ UNCHANGED <<c, n, rr, nextId>>
    /\ UNCHANGED initVars
    /\ UNCHANGED callerVars

\* ---- the system ----

\* the steps in which no hook and no Add() call fails
NextOk ==
    \/ InitAdd
    \/ InitFinish
    \/ \E t \in Callers : AcquireCall(t)
    \/ \E t \in Callers : AcquireRecv(t)
    \/ \E t \in Callers : AcquireTimeout(t)
    \/ \E t \in Callers : AcquirePre1(t)
    \/ \E t \in Callers : AcquireDec(t)
    \/ \E t \in Callers : AcquirePre2(t)
    \/ \E t \in Callers : AcquireReturn(t)
    \/ \E t \in Callers : ReleaseCall(t)
    \/ \E t \in Callers : ReleasePre(t)
    \/ \E t \in Callers : ReleaseSend(t)
    \/ \E t \in Callers : ReleaseInc(t)
    \/ \E t \in Callers : ReleasePost(t)
    \/ \E t \in Callers : ReleaseReturn(t)
    \/ RefreshLock
    \/ RefreshRecv
    \/ RefreshTimeout
    \/ RefreshKeep
    \/ RefreshAdd
    \/ RefreshSend
    \/ RefreshUnlock

\* the steps in which a hook or an Add() call fails
NextErr ==
    \/ InitAddErr
    \/ \E t \in Callers : AcquirePre1Err(t)
    \/ \E t \in Callers : AcquirePre2Err(t)
    \/ \E t \in Callers : ReleasePreErr(t)
    \/ \E t \in Callers : ReleasePostErr(t)
    \/ RefreshAddErr
    \/ RefreshBreak

Next == NextOk \/ NextErr

Spec == Init /\ [][Next]_vars

\* the pool with hooks and Add() calls that never fail
SpecOk == Init /\ [][NextOk]_vars

\* the pool with callers that may also release an instance they never acquired
NextRogue ==
    \/ Next
    \/ \E t \in Callers : RogueReleaseCall(t)

SpecRogue == Init /\ [][NextRogue]_vars

\* the steps of caller t inside a call that wait for nothing but the scheduler
CallerStep(t) ==
    \/ AcquireRecv(t) \/ AcquireTimeout(t)
    \/ AcquirePre1(t) \/ AcquirePre1Err(t)
    \/ AcquirePre2(t) \/ AcquirePre2Err(t)
    \/ AcquireReturn(t)
    \/ ReleasePre(t) \/ ReleasePreErr(t)
    \/ ReleaseSend(t)
    \/ ReleasePost(t) \/ ReleasePostErr(t)
    \/ ReleaseReturn(t)

\* the steps of caller t that take the mutex
LockStep(t) == AcquireDec(t) \/ ReleaseInc(t)

\* the steps of a refresh pass once it holds the mutex
RefreshStep ==
    \/ RefreshRecv \/ RefreshTimeout
    \/ RefreshKeep \/ RefreshAdd \/ RefreshAddErr
    \/ RefreshBreak \/ RefreshSend \/ RefreshUnlock

\* Fair scheduling: a goroutine that can run again and again does run (the Go
\* scheduler), and a goroutine waiting in Lock gets the mutex when it is free again
\* and again (sync.Mutex hands the mutex to a starving waiter).  Calls are made,
\* and the ticker ticks, at the client's and the clock's will: no fairness there.
FairSpec ==
    /\ Spec
    /\ SF_vars(RefreshStep)
    /\ \A t \in Callers : SF_vars(CallerStep(t)) /\ SF_vars(LockStep(t))

\* ---- the claims ----

\* the callers that hold an instance
Holders == {t \in Callers : held[t] # NoRes}

\* caller t is inside Acquire, or holds an instance it has not yet sent back
Demands(t) ==
    \/ pc[t] \in {"acq_select", "acq_pre1", "acq_lock", "acq_pre2", "acq_ret_nil"}
    \/ held[t] # NoRes

\* C1: no instance is held by two callers at the same time, with or without the
\* ticker goroutine.
ClaimC1 ==
    \A t, u \in Callers : (t # u /\ held[t] # NoRes) => held[t] # held[u]

WitnessC1 ==
    \E t, u \in Callers :
        /\ t # u
        /\ held[t] # NoRes
        /\ held[u] # NoRes
        /\ rpc \notin {"off", "idle"}

\* C2 as stated: with hooks and Add() that never fail, an Acquire times out only
\* when the callers inside Acquire or holding an instance outnumber PoolSize, also
\* with the ticker goroutine running.
ClaimC2 ==
    \A t \in Callers :
        pc[t] = "acq_ret_timeout" =>
            Cardinality({u \in Callers \ {t} : Demands(u)}) >= o.PoolSize

\* C2 amended: with hooks and Add() that never fail, an Acquire times out only when
\* the callers inside Acquire or holding an instance outnumber PoolSize, or while
\* a refresh pass holds an instance it has received and not yet sent back.
ClaimC2Amended ==
    \A t \in Callers :
        pc[t] = "acq_ret_timeout" =>
            \/ Cardinality({u \in Callers \ {t} : Demands(u)}) >= o.PoolSize
            \/ rr # NoRes

WitnessC2 ==
    \E t \in Callers :
        /\ pc[t] = "acq_ret_nil"
        /\ Cardinality({u \in Callers : Demands(u)}) = o.PoolSize
        /\ rpc \notin {"off", "idle"}

\* C3: p.n is never negative.
ClaimC3 == n >= 0

\* C4: p.n never exceeds PoolSize, also when hooks fail.
ClaimC4 == n <= o.PoolSize

WitnessC4 ==
    \E t \in Callers : pc[t] = "rel_ret_post" /\ n = o.PoolSize /\ Holders = {}

\* C5: an instance a caller holds is not in the buffer, no instance is in the buffer
\* twice, and every instance in the buffer or held is one that an Add() call yielded.
ClaimC5 ==
    /\ \A t \in Callers : held[t] # NoRes => held[t] \notin Range(c)
    /\ \A i, j \in 1..Len(c) : i # j => c[i] # c[j]
    /\ \A x \in Range(c) \cup {held[t] : t \in Holders} : x \in 1..(nextId - 1)

WitnessC5 ==
    /\ Holders # {}
    /\ c # <<>>
    /\ nextId > o.PoolSize + 1
    /\ rpc = "idle"

\* C6: when the replacement Add() fails, the refresh pass sends the original instance
\* back: leaving the failure branch appends rr to the buffer.
ClaimC6 ==
    [][(rpc = "break" /\ rpc' # "break") => c' = Append(c, rr)]_vars

\* C7: when a pass in which every Evict() returned true and every Add() succeeded
\* has done its last slot, none of the instances that were in the buffer when the
\* pass began is in the buffer.
ClaimC7 ==
    (rpc = "loop" /\ ri >= n) => orig \cap Range(c) = {}

\* C8 as stated: single-threaded and with no ticker goroutine, the Acquire that
\* follows a Release(r) immediately receives r, whatever the buffer held.
ClaimC8 ==
    [][\A t \in Callers :
        (pc[t] = "acq_select" /\ pc'[t] = "acq_pre1" /\ justReleased # NoRes)
            => r'[t] = justReleased]_vars

\* C8 amended: that Acquire receives r exactly when the buffer was empty at the
\* time of the Release (r is then the only entry); otherwise it receives the
\* oldest entry of the buffer, which is not r.
ClaimC8Amended ==
    [][\A t \in Callers :
        (pc[t] = "acq_select" /\ pc'[t] = "acq_pre1" /\ justReleased # NoRes)
            => /\ Len(c) = 1 => r'[t] = justReleased
               /\ Len(c) > 1 => (r'[t] # justReleased /\ r'[t] = c[1])]_vars

WitnessC8 ==
    \E t \in Callers :
        /\ pc[t] = "acq_select"
        /\ justReleased # NoRes
        /\ Len(c) > 1
        /\ c[Len(c)] = justReleased

\* C9: under fair scheduling every call of Acquire and every call of Release by a
\* caller that holds the instance returns.
ClaimC9 ==
    \A t \in Callers : (pc[t] # "idle") ~> (pc[t] = "idle")

WitnessC9 ==
    \E t, u \in Callers :
        /\ pc[t] = "acq_lock"
        /\ pc[u] = "rel_lock"
        /\ l = "refreshPool"

\* C10: an Acquire that waits on an empty buffer leaves the select only by the
\* timeout, with no resource, and neither that step nor its return changes the
\* buffer or p.n or gives the caller an instance.
ClaimC10 ==
    [][\A t \in Callers :
        /\ (pc[t] = "acq_select" /\ c = <<>> /\ pc'[t] # "acq_select")
            => (pc'[t] = "acq_ret_timeout" /\ r'[t] = NoRes /\ c' = c /\ n' = n)
        /\ (pc[t] = "acq_ret_timeout" /\ pc'[t] # "acq_ret_timeout")
            => (pc'[t] = "idle" /\ held'[t] = NoRes /\ c' = c /\ n' = n)]_vars

WitnessC10 ==
    \E t \in Callers :
        /\ pc[t] = "acq_ret_timeout"
        /\ c = <<>>
        /\ Cardinality(Holders) = o.PoolSize

\* the instance caller t has in hand: the one its Acquire has received, or the one
\* it holds and has not yet sent back
InHand(t) ==
    IF pc[t] \in {"acq_pre1", "acq_lock", "acq_pre2", "acq_ret_nil"} THEN r[t] ELSE held[t]

\* the instances that remain: in the buffer, in a caller's hand or in refreshPool's
Live == (Range(c) \cup {InHand(t) : t \in Callers} \cup {rr}) \ {NoRes}

\* C11: when the first PreAcquire fails, Acquire returns the error and no resource;
\* the received instance is not sent back (the buffer is left as it is, one entry
\* short) and p.n is not decremented, so one instance fewer remains under the same
\* p.n.
ClaimC11 ==
    [][\A t \in Callers :
        /\ (pc[t] = "acq_pre1" /\ pc'[t] = "acq_ret_err1")
            => /\ r'[t] = NoRes
               /\ c' = c
               /\ n' = n
               /\ r[t] \notin Live'
               /\ Cardinality(Live') = Cardinality(Live) - 1
        /\ (pc[t] = "acq_ret_err1" /\ pc'[t] # "acq_ret_err1")
            => (pc'[t] = "idle" /\ held'[t] = NoRes /\ c' = c /\ n' = n)]_vars

WitnessC11 ==
    \E t \in Callers :
        /\ pc[t] = "acq_ret_err1"
        /\ n = o.PoolSize
        /\ Len(c) = o.PoolSize - 1
        /\ Cardinality(Live) = o.PoolSize - 1

\* C12: when PreRelease fails, Release returns the error without sending the
\* resource: the call changes neither the buffer nor p.n, and PostRelease is not
\* reached.
ClaimC12 ==
    [][\A t \in Callers :
        /\ (pc[t] = "idle" /\ pc'[t] = "rel_pre") => (c' = c /\ n' = n)
        /\ (pc[t] = "rel_pre" /\ pc'[t] = "rel_ret_pre")
            => (c' = c /\ n' = n /\ r[t] \notin Range(c'))
        /\ (pc[t] = "rel_ret_pre" /\ pc'[t] # "rel_ret_pre")
            => (pc'[t] = "idle" /\ c' = c /\ n' = n)]_vars

WitnessC12 ==
    \E t \in Callers :
        /\ pc[t] = "rel_ret_pre"
        /\ r[t] # NoRes
        /\ r[t] \notin Range(c)

\* C13: PostRelease is reached only after the send and the increment of p.n, and
\* when it fails Release returns the error and undoes neither: the buffer and p.n
\* stay as they are, and after a Release that ran alone the instance is still in the
\* buffer, for a later Acquire to receive.
ClaimC13 ==
    [][\A t \in Callers :
        /\ (pc[t] = "rel_send" /\ pc'[t] # "rel_send")
            => (pc'[t] = "rel_lock" /\ c' = Append(c, r[t]))
        /\ (pc[t] = "rel_lock" /\ pc'[t] # "rel_lock")
            => (pc'[t] = "rel_post" /\ n' = n + 1)
        /\ (pc[t] # "rel_post" /\ pc'[t] = "rel_post") => pc[t] = "rel_lock"
        /\ (pc[t] = "rel_post" /\ pc'[t] = "rel_ret_post")
            => /\ c' = c
               /\ n' = n
               /\ held'[t] = NoRes
               /\ justReleased = r[t] => r[t] \in Range(c')
        /\ (pc[t] = "rel_ret_post" /\ pc'[t] # "rel_ret_post")
            => (pc'[t] = "idle" /\ c' = c /\ n' = n /\ held'[t] = NoRes)]_vars

WitnessC13 ==
    \E t \in Callers :
        /\ pc[t] = "rel_ret_post"
        /\ justReleased = r[t]
        /\ r[t] \in Range(c)
        /\ n = Len(c)

\* the number of r.Add() calls that have returned an instance
AddCalls == nextId - 1

\* C14: a successful Initialize has called Add() exactly PoolSize times, its buffer
\* holds exactly the instances those calls returned, p.n is PoolSize, and the ticker
\* goroutine exists exactly when EvictionTest is set; it is started by that one step
\* only, so there is one of it.
ClaimC14 ==
    [][/\ (ipc = "add" /\ ipc' = "done")
            => /\ AddCalls' = o.PoolSize
               /\ c' = [i \in 1..o.PoolSize |-> i]
               /\ n' = o.PoolSize
               /\ (rpc' = "idle") <=> o.EvictionTest
               /\ (rpc' = "off") <=> ~o.EvictionTest
       /\ (rpc = "off" /\ rpc' # "off") => (ipc = "add" /\ ipc' = "done")
       /\ (rpc # "off") => (rpc' # "off" /\ o.EvictionTest)
       /\ (ipc = "done") => ipc' = "done"]_vars

WitnessC14 ==
    /\ ipc = "done"
    /\ o.PoolSize = MaxPoolSize
    /\ o.EvictionTest
    /\ rpc = "idle"
    /\ n = o.PoolSize
    /\ Len(c) = o.PoolSize
    /\ \A t \in Callers : pc[t] = "idle" /\ held[t] = NoRes

\* C15: when an Add() call of the filling loop fails, Initialize returns the error
\* and no pool: no Add() call follows, no ticker goroutine is started, and nothing
\* can be done with the pool.
ClaimC15 ==
    [][/\ (ipc = "add" /\ ipc' = "failed")
            => /\ AddCalls < o.PoolSize
               /\ AddCalls' = AddCalls
               /\ c' = c
               /\ rpc' = "off"
       /\ (ipc = "failed")
            => /\ ipc' = "failed"
               /\ AddCalls' = AddCalls
               /\ rpc' = "off"
               /\ \A t \in Callers : pc'[t] = "idle"]_vars

WitnessC15 ==
    /\ ipc = "failed"
    /\ o.PoolSize = MaxPoolSize
    /\ o.EvictionTest
    /\ AddCalls = o.PoolSize - 1
    /\ rpc = "off"

\* C16: a successful Acquire receives from the buffer, runs PreAcquire, decrements
\* p.n by exactly one under the lock, runs PreAcquire again and returns the instance
\* received, in that order; when the second PreAcquire fails it returns the error and
\* no resource, with p.n already decremented and the instance not sent back.
ClaimC16 ==
    [][\A t \in Callers :
        /\ (pc[t] # "acq_pre1" /\ pc'[t] = "acq_pre1")
            => /\ pc[t] = "acq_select"
               /\ c # <<>>
               /\ r'[t] = Head(c)
               /\ c' = Tail(c)
               /\ n' = n
        /\ (pc[t] # "acq_lock" /\ pc'[t] = "acq_lock")
            => (pc[t] = "acq_pre1" /\ r'[t] = r[t] /\ c' = c /\ n' = n)
        /\ (pc[t] # "acq_pre2" /\ pc'[t] = "acq_pre2")
            => /\ pc[t] = "acq_lock"
               /\ l = "unlocked"
               /\ l' = "unlocked"
               /\ n' = n - 1
               /\ r'[t] = r[t]
               /\ c' = c
        /\ (pc[t] # "acq_ret_nil" /\ pc'[t] = "acq_ret_nil")
            => (pc[t] = "acq_pre2" /\ r'[t] = r[t] /\ c' = c /\ n' = n)
        /\ (pc[t] = "acq_ret_nil" /\ pc'[t] # "acq_ret_nil")
            => (pc'[t] = "idle" /\ held'[t] = r[t] /\ r[t] # NoRes /\ c' = c /\ n' = n)
        /\ (pc[t] # "acq_ret_err2" /\ pc'[t] = "acq_ret_err2")
            => /\ pc[t] = "acq_pre2"
               /\ r'[t] = NoRes
               /\ c' = c
               /\ n' = n
               /\ r[t] \notin Range(c')
        /\ (pc[t] = "acq_ret_err2" /\ pc'[t] # "acq_ret_err2")
            => (pc'[t] = "idle" /\ held'[t] = NoRes /\ c' = c /\ n' = n)]_vars

WitnessC16 ==
    \E t \in Callers :
        /\ pc[t] = "acq_ret_err2"
        /\ Alone(t)
        /\ rpc = "off"
        /\ n = o.PoolSize - 1
        /\ Len(c) = o.PoolSize - 1

\* refreshPool is between its Lock and its deferred Unlock
InPass == rpc \notin {"off", "idle"}

\* C17: a refresh pass holds p.l from its first slot to its last and p.n does not
\* change while it runs: no decrement of Acquire and no increment of Release takes
\* effect during the pass, whatever the pass receives, replaces, drops or skips.
ClaimC17 ==
    [][/\ InPass => (l = "refreshPool" /\ n' = n)
       /\ InPass' => l' = "refreshPool"
       /\ (~InPass /\ InPass') => ri' = 0
       /\ (InPass /\ ~InPass') => (ri >= n /\ l' = "unlocked")]_vars

WitnessC17 ==
    /\ InPass
    /\ ri >= 1
    /\ Cardinality(Live) < o.PoolSize
    /\ \E t \in Callers : pc[t] = "acq_lock"
    /\ \E t \in Callers : pc[t] = "rel_lock"

\* C18: a Release that reaches its send while the buffer holds PoolSize entries
\* blocks there: as long as the buffer stays full the call does not send, does not
\* reach its increment of p.n and does not return, and only a receive changes the
\* buffer; so it never returns when nothing ever receives.
ClaimC18 ==
    [][\A t \in Callers :
        (pc[t] = "rel_send" /\ Len(c) = o.PoolSize)
            => /\ pc'[t] = "rel_send"
               /\ r'[t] = r[t]
               /\ c' = c \/ c' = Tail(c)
               /\ (c' = c /\ Alone(t) /\ ~InPass) => n' = n]_vars

WitnessC18 ==
    \E t \in Callers :
        /\ pc[t] = "rel_send"
        /\ held[t] = NoRes
        /\ Len(c) = o.PoolSize
        /\ Alone(t)
        /\ rpc = "off"

\* Initialize has returned a pool, no caller is inside Acquire or Release and no
\* refresh pass is running
Quiescent ==
    /\ ipc = "done"
    /\ \A t \in Callers : pc[t] = "idle"
    /\ ~InPass

\* C19: with hooks and Add() calls that never fail, in every state with no Acquire,
\* no Release and no refresh pass in progress p.n is the number of entries of the
\* buffer, and the entries of the buffer and the instances held by callers add up to
\* PoolSize.
ClaimC19 ==
    Quiescent =>
        /\ n = Len(c)
        /\ Len(c) + Cardinality(Holders) = o.PoolSize

WitnessC19 ==
    /\ Quiescent
    /\ Holders # {}
    /\ c # <<>>
    /\ nextId > o.PoolSize + 1

\* caller u is inside Acquire with instance x received, or holds x
Uses(u, x) ==
    \/ pc[u] \in {"acq_pre1", "acq_lock", "acq_pre2", "acq_ret_nil"} /\ r[u] = x
    \/ pc[u] \notin ReleaseReturns /\ held[u] = x

\* C20: while a caller runs PostRelease on an instance, no other caller runs
\* Acquire on that instance or holds it, and no refresh pass has it in hand.
ClaimC20 ==
    \A t \in Callers :
        pc[t] = "rel_post" =>
            /\ \A u \in Callers \ {t} : ~Uses(u, r[t])
            /\ rr # r[t]

====
